---- MODULE Spec2Model ----
(***************************************************************************)
(* Model of the Atomic interpreter (src/src/main.rs): lexer, parser and    *)
(* executor.  Source text is a sequence of one-character strings, words,   *)
(* names and texts are sequences of characters, integers are i32.          *)
(***************************************************************************)
EXTENDS Integers, Sequences, FiniteSets, TLC

VARIABLES
    code,             \* main: the source text read from the file
    words,            \* lexer: the words the iterator has not yielded yet
    tokens,           \* lexer: the tokens pushed so far
    iter,             \* parser: the tokens the iterator has not yielded yet
    ast,              \* parser: the nodes pushed so far; execute: the program
    node_idx,         \* execute: number of nodes the for loop has finished
    variables,        \* execute: the HashMap<String, i32>
    stdout,           \* lines written by println! in execute
    stderr,           \* lines written by eprintln!
    overflow_checks,  \* build profile: arithmetic overflow panics (dev) or wraps
    pc                \* "lexer", "parser", "execute", "done" or "panicked"

vars == <<code, words, tokens, iter, ast, node_idx, variables, stdout, stderr,
          overflow_checks, pc>>

----------------------------------------------------------------------------
(* i32 *)

MaxInt == 2147483647

MinInt == -MaxInt - 1

I32 == MinInt..MaxInt

\* a + b leaves the i32 range
add_overflows(a, b) ==
    \/ b > 0 /\ a > MaxInt - b
    \/ b < 0 /\ a < MinInt - b

\* a + b reduced to 32-bit two's complement
wrapping_add(a, b) ==
    IF b > 0 /\ a > MaxInt - b THEN (a - MaxInt - 1) + (b + MinInt)
    ELSE IF b < 0 /\ a < MinInt - b THEN (a - MinInt) + (b + MaxInt + 1)
    ELSE a + b

\* a - b leaves the i32 range
sub_overflows(a, b) ==
    \/ b < 0 /\ a > MaxInt + b
    \/ b > 0 /\ a < MinInt + b

\* a - b reduced to 32-bit two's complement
wrapping_sub(a, b) ==
    IF b < 0 /\ a > MaxInt + b THEN (a - MaxInt - 1) - (b - MinInt)
    ELSE IF b > 0 /\ a < MinInt + b THEN (a - MinInt) - (b - MaxInt - 1)
    ELSE a - b

\* |a| for a # MinInt
Magnitude(a) == IF a < 0 THEN -a ELSE a

\* floor(2^31 / m) for 1 < m <= MaxInt
Pow31Div(m) == (MaxInt \div m) + (IF MaxInt % m = m - 1 THEN 1 ELSE 0)

\* a * b leaves the i32 range
mul_overflows(a, b) ==
    IF a = 0 \/ b = 0 THEN FALSE
    ELSE IF a = MinInt THEN b # 1
    ELSE IF b = MinInt THEN a # 1
    ELSE IF (a < 0) = (b < 0) THEN Magnitude(a) > MaxInt \div Magnitude(b)
    ELSE IF Magnitude(b) = 1 THEN FALSE
    ELSE Magnitude(a) > Pow31Div(Magnitude(b))

\* x * y mod 2^16 for x, y in 0..65535
MulMod16(x, y) == (((x * (y \div 256)) % 256) * 256 + x * (y % 256)) % 65536

\* a * b reduced to 32-bit two's complement, on 16-bit limbs
wrapping_mul(a, b) ==
    LET al == a % 65536
        ah == (a \div 65536) % 65536
        bl == b % 65536
        bh == (b \div 65536) % 65536
        t0 == al * (bl % 256)
        t1 == al * (bl \div 256)
        m  == (t1 % 256) * 256 + t0
        lo == m % 65536
        carry == (m \div 65536) + (t1 \div 256)
        hi == (carry + MulMod16(ah, bl) + MulMod16(al, bh)) % 65536
    IN  (IF hi >= 32768 THEN hi - 65536 ELSE hi) * 65536 + lo

\* a / b leaves the i32 range (the one case: i32::MIN / -1); also a % b panics
div_overflows(a, b) == a = MinInt /\ b = -1

\* a / b truncated toward zero, for b # 0 and not div_overflows(a, b)
truncating_div(a, b) ==
    IF b > 0 THEN (IF a >= 0 THEN a \div b ELSE (a + (b - 1)) \div b)
    ELSE IF a <= 0 THEN a \div b
    ELSE IF b = MinInt THEN 0
    ELSE -(a \div (-b))

\* a % b with the sign of a, for b # 0 and not div_overflows(a, b)
truncating_rem(a, b) == a - truncating_div(a, b) * b

----------------------------------------------------------------------------
(* characters and strings *)

DigitChars == <<"0", "1", "2", "3", "4", "5", "6", "7", "8", "9">>

Digits == {DigitChars[i] : i \in 1..10}

DigitValue(c) == (CHOOSE i \in 1..10 : DigitChars[i] = c) - 1

\* char::is_alphabetic, on the letters the model's sources use
Alphabetic == {"a", "b", "c", "d", "e", "f", "g", "h", "i", "j", "k", "l", "m",
               "n", "o", "p", "q", "r", "s", "t", "u", "v", "w", "x", "y", "z"}

\* char::is_whitespace, on the characters the model's sources use
Whitespace == {" ", "\t", "\n", "\r"}

Quote == "\""

RECURSIVE FmtNat(_)
\* decimal digits of n >= 0
FmtNat(n) ==
    IF n < 10 THEN <<DigitChars[n + 1]>>
    ELSE FmtNat(n \div 10) \o <<DigitChars[(n % 10) + 1]>>

\* Display for i32 ("{}")
FmtI32(n) ==
    IF n >= 0 THEN FmtNat(n)
    ELSE LET m == -(n + 1)      \* |n| - 1
             last == ((m % 10) + 1) % 10
             rest == (m \div 10) + (IF m % 10 = 9 THEN 1 ELSE 0)
         IN  <<"-">> \o (IF rest = 0 THEN <<>> ELSE FmtNat(rest))
                     \o <<DigitChars[last + 1]>>

RECURSIVE ParseDigits(_, _, _)
\* from_str_radix accumulation with checked_mul / checked_add (checked_sub)
ParseDigits(s, acc, neg) ==
    IF s = <<>> THEN [ok |-> TRUE, val |-> acc]
    ELSE IF Head(s) \notin Digits THEN [ok |-> FALSE, val |-> 0]
    ELSE LET d == DigitValue(Head(s))
         IN  IF neg
             THEN IF acc < (MinInt + d + 9) \div 10 THEN [ok |-> FALSE, val |-> 0]
                  ELSE ParseDigits(Tail(s), acc * 10 - d, neg)
             ELSE IF acc > (MaxInt - d) \div 10 THEN [ok |-> FALSE, val |-> 0]
                  ELSE ParseDigits(Tail(s), acc * 10 + d, neg)

\* str::parse::<i32>: optional sign, at least one digit, no overflow
parse_i32(s) ==
    IF s = <<>> THEN [ok |-> FALSE, val |-> 0]
    ELSE IF Head(s) \in {"+", "-"}
         THEN IF Len(s) = 1 THEN [ok |-> FALSE, val |-> 0]
              ELSE ParseDigits(Tail(s), 0, Head(s) = "-")
    ELSE ParseDigits(s, 0, FALSE)

RECURSIVE SplitFrom(_, _, _)
\* words of s: cur is the word being read, acc the words already closed
SplitFrom(s, cur, acc) ==
    IF s = <<>> THEN (IF cur = <<>> THEN acc ELSE Append(acc, cur))
    ELSE IF Head(s) \in Whitespace
         THEN SplitFrom(Tail(s), <<>>, IF cur = <<>> THEN acc ELSE Append(acc, cur))
    ELSE SplitFrom(Tail(s), Append(cur, Head(s)), acc)

\* str::split_whitespace: the maximal runs of non-whitespace characters
split_whitespace(s) == SplitFrom(s, <<>>, <<>>)

starts_with_quote(w) == w # <<>> /\ w[1] = Quote

ends_with_quote(w) == w # <<>> /\ w[Len(w)] = Quote

RECURSIVE TrimStart(_)
TrimStart(s) == IF s # <<>> /\ Head(s) = Quote THEN TrimStart(Tail(s)) ELSE s

RECURSIVE TrimEnd(_)
TrimEnd(s) ==
    IF s # <<>> /\ s[Len(s)] = Quote THEN TrimEnd(SubSeq(s, 1, Len(s) - 1)) ELSE s

\* str::trim_matches('"'): every leading and trailing quote is removed
trim_matches(s) == TrimEnd(TrimStart(s))

\* word.chars().all(|c| c.is_alphabetic())
all_alphabetic(w) == \A i \in 1..Len(w) : w[i] \in Alphabetic

----------------------------------------------------------------------------
(* enum Token, enum Value, enum ASTNode *)

TokPrint == [type |-> "Print"]

TokAdd == [type |-> "Add"]

TokSubtract == [type |-> "Subtract"]

TokMultiply == [type |-> "Multiply"]

TokDivide == [type |-> "Divide"]

TokModulus == [type |-> "Modulus"]

TokLet == [type |-> "Let"]

TokIdentifier(name) == [type |-> "Identifier", name |-> name]

TokNumber(n) == [type |-> "Number", value |-> n]

TokString(text) == [type |-> "String", text |-> text]

ValNumber(n) == [type |-> "Number", n |-> n]

ValVariable(name) == [type |-> "Variable", name |-> name]

NodePrint(text) == [type |-> "Print", text |-> text]

NodeLet(var, value) == [type |-> "Let", var |-> var, value |-> value]

\* Add, Subtract, Multiply, Divide, Modulus: op is the variant's name
NodeOp(op, a, b) == [type |-> op, a |-> a, b |-> b]

Operators == {"Add", "Subtract", "Multiply", "Divide", "Modulus"}

----------------------------------------------------------------------------
(* fn lexer *)

KwPrint == <<"p", "r", "i", "n", "t">>

KwAdd == <<"a", "d", "d">>

KwSubtract == <<"s", "u", "b", "t", "r", "a", "c", "t">>

KwMultiply == <<"m", "u", "l", "t", "i", "p", "l", "y">>

KwDivide == <<"d", "i", "v", "i", "d", "e">>

KwMod == <<"m", "o", "d">>

KwLet == <<"l", "e", "t">>

ErrInvalidAssignment == <<"Syntax Error: Invalid variable assignment syntax">>

ErrUnknownToken(word) == <<"Unknown token: ">> \o word

\* the fixed-token arms of the match
lex_keyword(word) ==
    IF word = KwPrint THEN TokPrint
    ELSE IF word = KwAdd THEN TokAdd
    ELSE IF word = KwSubtract THEN TokSubtract
    ELSE IF word = KwMultiply THEN TokMultiply
    ELSE IF word = KwDivide THEN TokDivide
    ELSE TokModulus

\* the "let" arm: rest is the words after "let"
lex_let(rest, toks, err) ==
    LET pushed == Append(toks, TokLet)
        fail(ws) == [words |-> ws, tokens |-> pushed,
                     stderr |-> Append(err, ErrInvalidAssignment)]
    IN  IF rest = <<>> THEN fail(rest)
        ELSE LET var == Head(rest)
                 afterVar == Tail(rest)
             IN  IF afterVar = <<>> \/ Head(afterVar) # <<"=">> THEN fail(afterVar)
                 ELSE LET afterEq == Tail(afterVar)
                      IN  IF afterEq = <<>> THEN fail(afterEq)
                          ELSE LET num == parse_i32(Head(afterEq))
                               IN  IF num.ok
                                   THEN [words |-> Tail(afterEq),
                                         tokens |-> pushed \o <<TokIdentifier(var),
                                                                TokNumber(num.val)>>,
                                         stderr |-> err]
                                   ELSE fail(Tail(afterEq))

RECURSIVE string_loop(_, _)
\* the while-let-peek loop of the quoted-string arm
string_loop(full_string, rest) ==
    IF rest = <<>> THEN [full_string |-> full_string, words |-> rest]
    ELSE LET next_word == Head(rest)
             joined == full_string \o <<" ">> \o next_word
         IN  IF ends_with_quote(next_word)
             THEN [full_string |-> joined, words |-> Tail(rest)]
             ELSE string_loop(joined, Tail(rest))

\* lex_string that reports a literal without a closing quote
lex_string_ReportsUnterminated(word, rest, toks, err) ==
    LET r == string_loop(word, rest)
    IN  [words |-> r.words,
         tokens |-> Append(toks, TokString(trim_matches(r.full_string))),
         stderr |-> IF ends_with_quote(r.full_string) THEN err
                    ELSE Append(err, <<"Syntax Error: Unterminated string">>)]

\* the quoted-string arm
lex_string(word, rest, toks, err) ==
    LET r == string_loop(word, rest)
    IN  [words |-> r.words,
         tokens |-> Append(toks, TokString(trim_matches(r.full_string))),
         stderr |-> err]

\* the `_` arm: number, quoted string, identifier or unknown token
lex_other(word, rest, toks, err) ==
    LET num == parse_i32(word)
    IN  IF num.ok
        THEN [words |-> rest, tokens |-> Append(toks, TokNumber(num.val)),
              stderr |-> err]
        ELSE IF starts_with_quote(word) THEN lex_string(word, rest, toks, err)
        ELSE IF all_alphabetic(word)
        THEN [words |-> rest, tokens |-> Append(toks, TokIdentifier(word)),
              stderr |-> err]
        ELSE [words |-> rest, tokens |-> toks,
              stderr |-> Append(err, ErrUnknownToken(word))]

\* one iteration of `while let Some(word) = words.next()`, for ws # <<>>
lex_step(ws, toks, err) ==
    LET word == Head(ws)
        rest == Tail(ws)
    IN  IF word \in {KwPrint, KwAdd, KwSubtract, KwMultiply, KwDivide, KwMod}
        THEN [words |-> rest, tokens |-> Append(toks, lex_keyword(word)),
              stderr |-> err]
        ELSE IF word = KwLet THEN lex_let(rest, toks, err)
        ELSE lex_other(word, rest, toks, err)

RECURSIVE LexLoop(_, _, _)
LexLoop(ws, toks, err) ==
    IF ws = <<>> THEN [tokens |-> toks, stderr |-> err]
    ELSE LET r == lex_step(ws, toks, err)
         IN  LexLoop(r.words, r.tokens, r.stderr)

\* lexer(code): the tokens returned and the diagnostics written
lexer(c) == LexLoop(split_whitespace(c), <<>>, <<>>)

----------------------------------------------------------------------------
(* fn parser *)

ErrExpectedString == <<"Syntax Error: Expected a string after 'print'">>

ErrExpectedLet == <<"Syntax Error: Expected variable name and value after 'let'">>

ErrExpectedOperand == <<"Syntax Error: Expected a number or variable after operation">>

\* what is left of the iterator after n more calls of next()
Advance(it, n) == IF n >= Len(it) THEN <<>> ELSE SubSeq(it, n + 1, Len(it))

\* Some(Token::Number) / Some(Token::Identifier) is an operand
IsOperand(it, k) == Len(it) >= k /\ it[k].type \in {"Number", "Identifier"}

\* the Value an operand token becomes
operand_value(tok) ==
    IF tok.type = "Number" THEN ValNumber(tok.value) ELSE ValVariable(tok.name)

\* parse_print that only peeks at a token that is not a string
parse_print_Peeks(rest, nodes, err) ==
    IF Len(rest) >= 1 /\ rest[1].type = "String"
    THEN [iter |-> Advance(rest, 1), ast |-> Append(nodes, NodePrint(rest[1].text)),
          stderr |-> err]
    ELSE [iter |-> rest, ast |-> nodes, stderr |-> Append(err, ErrExpectedString)]

\* the Token::Print arm: rest is the iterator after the Print token
parse_print(rest, nodes, err) ==
    IF Len(rest) >= 1 /\ rest[1].type = "String"
    THEN [iter |-> Advance(rest, 1), ast |-> Append(nodes, NodePrint(rest[1].text)),
          stderr |-> err]
    ELSE [iter |-> Advance(rest, 1), ast |-> nodes,
          stderr |-> Append(err, ErrExpectedString)]

\* the Token::Let arm: both next() calls are made before the pattern is matched
parse_let(rest, nodes, err) ==
    IF Len(rest) >= 2 /\ rest[1].type = "Identifier" /\ rest[2].type = "Number"
    THEN [iter |-> Advance(rest, 2),
          ast |-> Append(nodes, NodeLet(rest[1].name, rest[2].value)),
          stderr |-> err]
    ELSE [iter |-> Advance(rest, 2), ast |-> nodes,
          stderr |-> Append(err, ErrExpectedLet)]

\* parse_operation that drops an incomplete statement without a diagnostic
parse_operation_Silent(token, rest, nodes, err) ==
    IF IsOperand(rest, 1) /\ IsOperand(rest, 2)
    THEN [iter |-> Advance(rest, 2),
          ast |-> Append(nodes, NodeOp(token.type, operand_value(rest[1]),
                                       operand_value(rest[2]))),
          stderr |-> err]
    ELSE [iter |-> Advance(rest, 2), ast |-> nodes, stderr |-> err]

\* the operator arm: first and second are taken, then matched in turn
parse_operation(token, rest, nodes, err) ==
    IF IsOperand(rest, 1) /\ IsOperand(rest, 2)
    THEN [iter |-> Advance(rest, 2),
          ast |-> Append(nodes, NodeOp(token.type, operand_value(rest[1]),
                                       operand_value(rest[2]))),
          stderr |-> err]
    ELSE [iter |-> Advance(rest, 2), ast |-> nodes,
          stderr |-> Append(err, ErrExpectedOperand)]

\* parse_step that reports a token that starts no statement
parse_step_ReportsStray(it, nodes, err) ==
    LET token == Head(it)
        rest == Tail(it)
    IN  IF token.type = "Print" THEN parse_print(rest, nodes, err)
        ELSE IF token.type = "Let" THEN parse_let(rest, nodes, err)
        ELSE IF token.type \in Operators THEN parse_operation(token, rest, nodes, err)
        ELSE [iter |-> rest, ast |-> nodes,
              stderr |-> Append(err, <<"Syntax Error: Unexpected token">>)]

\* one iteration of `while let Some(token) = iter.next()`, for it # <<>>
parse_step(it, nodes, err) ==
    LET token == Head(it)
        rest == Tail(it)
    IN  IF token.type = "Print" THEN parse_print(rest, nodes, err)
        ELSE IF token.type = "Let" THEN parse_let(rest, nodes, err)
        ELSE IF token.type \in Operators THEN parse_operation(token, rest, nodes, err)
        ELSE [iter |-> rest, ast |-> nodes, stderr |-> err]

RECURSIVE ParseLoop(_, _, _)
ParseLoop(it, nodes, err) ==
    IF it = <<>> THEN [ast |-> nodes, stderr |-> err]
    ELSE LET r == parse_step(it, nodes, err)
         IN  ParseLoop(r.iter, r.ast, r.stderr)

\* parser(tokens): the nodes returned and the diagnostics written
parser(toks) == ParseLoop(toks, <<>>, <<>>)

----------------------------------------------------------------------------
(* fn execute, fn resolve_value *)

EmptyMap == [name \in {} |-> 0]

\* insert that leaves an existing entry alone
insert_KeepsOld(map, key, value) ==
    [name \in DOMAIN map \cup {key} |->
        IF name \in DOMAIN map THEN map[name] ELSE value]

\* HashMap::insert
insert(map, key, value) ==
    [name \in DOMAIN map \cup {key} |-> IF name = key THEN value ELSE map[name]]

\* resolve_value with 1 for a missing variable
resolve_value_DefaultOne(value, map) ==
    IF value.type = "Number" THEN value.n
    ELSE IF value.name \in DOMAIN map THEN map[value.name] ELSE 1

\* resolve_value: a number is itself, a variable its entry or 0
resolve_value(value, map) ==
    IF value.type = "Number" THEN value.n
    ELSE IF value.name \in DOMAIN map THEN map[value.name] ELSE 0

ErrDivisionByZero == <<"Error: Division by zero">>

ErrModulusByZero == <<"Error: Modulus by zero">>

\* "Variable {} set to {}"
FmtLet(var, value) ==
    <<"V", "a", "r", "i", "a", "b", "l", "e", " ">> \o var
        \o <<" ", "s", "e", "t", " ", "t", "o", " ">> \o FmtI32(value)

\* "{} <sym> {} = {}"
FmtOp(left, sym, right, result) ==
    FmtI32(left) \o <<" ", sym, " ">> \o FmtI32(right) \o <<" ", "=", " ">>
        \o FmtI32(result)

\* the node the for loop is at
CurNode == ast[node_idx + 1]

AtNode(type) == pc = "execute" /\ node_idx < Len(ast) /\ CurNode.type = type

\* the arithmetic panicked: the thread unwinds, nothing more is written
Panic ==
    /\ pc' = "panicked"
    /\ UNCHANGED <<code, words, tokens, iter, ast, node_idx, variables, stdout,
                   stderr, overflow_checks>>

\* the statement wrote `line` to standard output
WriteLine(line) ==
    /\ stdout' = Append(stdout, line)
    /\ node_idx' = node_idx + 1
    /\ UNCHANGED <<code, words, tokens, iter, ast, variables, stderr,
                   overflow_checks, pc>>

\* the statement wrote `line` to standard error
WriteError(line) ==
    /\ stderr' = Append(stderr, line)
    /\ node_idx' = node_idx + 1
    /\ UNCHANGED <<code, words, tokens, iter, ast, variables, stdout,
                   overflow_checks, pc>>

ExecPrint ==
    /\ AtNode("Print")
    /\ WriteLine(CurNode.text)

ExecLet ==
    /\ AtNode("Let")
    /\ variables' = insert(variables, CurNode.var, CurNode.value)
    /\ stdout' = Append(stdout, FmtLet(CurNode.var, CurNode.value))
    /\ node_idx' = node_idx + 1
    /\ UNCHANGED <<code, words, tokens, iter, ast, stderr, overflow_checks, pc>>

\* ExecAdd with a lookup that enters the default of a missing variable
ExecAddInsertsDefault ==
    /\ AtNode("Add")
    /\ LET left == resolve_value(CurNode.a, variables)
           right == resolve_value(CurNode.b, variables)
           read == {v.name : v \in {w \in {CurNode.a, CurNode.b} : w.type = "Variable"}}
       IN  IF add_overflows(left, right) /\ overflow_checks THEN Panic
           ELSE /\ stdout' = Append(stdout, FmtOp(left, "+", right,
                                                  wrapping_add(left, right)))
                /\ variables' = [name \in DOMAIN variables \cup read |->
                                   IF name \in DOMAIN variables
                                   THEN variables[name] ELSE 0]
                /\ node_idx' = node_idx + 1
                /\ UNCHANGED <<code, words, tokens, iter, ast, stderr,
                               overflow_checks, pc>>

ExecAdd ==
    /\ AtNode("Add")
    /\ LET left == resolve_value(CurNode.a, variables)
           right == resolve_value(CurNode.b, variables)
       IN  IF add_overflows(left, right) /\ overflow_checks THEN Panic
           ELSE WriteLine(FmtOp(left, "+", right, wrapping_add(left, right)))

ExecSubtract ==
    /\ AtNode("Subtract")
    /\ LET left == resolve_value(CurNode.a, variables)
           right == resolve_value(CurNode.b, variables)
       IN  IF sub_overflows(left, right) /\ overflow_checks THEN Panic
           ELSE WriteLine(FmtOp(left, "-", right, wrapping_sub(left, right)))

ExecMultiply ==
    /\ AtNode("Multiply")
    /\ LET left == resolve_value(CurNode.a, variables)
           right == resolve_value(CurNode.b, variables)
       IN  IF mul_overflows(left, right) /\ overflow_checks THEN Panic
           ELSE WriteLine(FmtOp(left, "*", right, wrapping_mul(left, right)))

\* ExecDivide with the diagnostic written by println!
ExecDivideZeroToStdout ==
    /\ AtNode("Divide")
    /\ LET left == resolve_value(CurNode.a, variables)
           right == resolve_value(CurNode.b, variables)
       IN  IF right # 0
           THEN IF div_overflows(left, right) THEN Panic
                ELSE WriteLine(FmtOp(left, "/", right, truncating_div(left, right)))
           ELSE WriteLine(ErrDivisionByZero)

\* i32::MIN / -1 panics in every build profile
ExecDivide ==
    /\ AtNode("Divide")
    /\ LET left == resolve_value(CurNode.a, variables)
           right == resolve_value(CurNode.b, variables)
       IN  IF right # 0
           THEN IF div_overflows(left, right) THEN Panic
                ELSE WriteLine(FmtOp(left, "/", right, truncating_div(left, right)))
           ELSE WriteError(ErrDivisionByZero)

\* i32::MIN % -1 panics in every build profile
ExecModulus ==
    /\ AtNode("Modulus")
    /\ LET left == resolve_value(CurNode.a, variables)
           right == resolve_value(CurNode.b, variables)
       IN  IF right # 0
           THEN IF div_overflows(left, right) THEN Panic
                ELSE WriteLine(FmtOp(left, "%", right, truncating_rem(left, right)))
           ELSE WriteError(ErrModulusByZero)

\* the for loop is exhausted: execute and main return
ExecReturn ==
    /\ pc = "execute"
    /\ node_idx = Len(ast)
    /\ pc' = "done"
    /\ UNCHANGED <<code, words, tokens, iter, ast, node_idx, variables, stdout,
                   stderr, overflow_checks>>

----------------------------------------------------------------------------
(* fn main: lexer, then parser, then execute *)

LexStep ==
    /\ pc = "lexer"
    /\ words # <<>>
    /\ LET r == lex_step(words, tokens, stderr)
       IN  /\ words' = r.words
           /\ tokens' = r.tokens
           /\ stderr' = r.stderr
    /\ UNCHANGED <<code, iter, ast, node_idx, variables, stdout, overflow_checks, pc>>

\* lexer returns its tokens, parser makes its iterator over them
LexReturn ==
    /\ pc = "lexer"
    /\ words = <<>>
    /\ iter' = tokens
    /\ pc' = "parser"
    /\ UNCHANGED <<code, words, tokens, ast, node_idx, variables, stdout, stderr,
                   overflow_checks>>

ParseStep ==
    /\ pc = "parser"
    /\ iter # <<>>
    /\ LET r == parse_step(iter, ast, stderr)
       IN  /\ iter' = r.iter
           /\ ast' = r.ast
           /\ stderr' = r.stderr
    /\ UNCHANGED <<code, words, tokens, node_idx, variables, stdout,
                   overflow_checks, pc>>

\* parser returns the ast, execute creates its empty HashMap
ParseReturn ==
    /\ pc = "parser"
    /\ iter = <<>>
    /\ variables' = EmptyMap
    /\ node_idx' = 0
    /\ pc' = "execute"
    /\ UNCHANGED <<code, words, tokens, iter, ast, stdout, stderr, overflow_checks>>

----------------------------------------------------------------------------
(* inputs *)

\* let x = 5
SrcLetX5 ==
    <<"l", "e", "t", " ", "x", " ", "=", " ", "5">>

\* let y
SrcLetY ==
    <<"l", "e", "t", " ", "y">>

\* add x 3
SrcAddX3 ==
    <<"a", "d", "d", " ", "x", " ", "3">>

\* print "done"
SrcPrintDone ==
    <<"p", "r", "i", "n", "t", " ", "\"", "d", "o", "n", "e", "\"">>

\* print "a b"
SrcPrintAB ==
    <<"p", "r", "i", "n", "t", " ", "\"", "a", " ", "b", "\"">>

\* print "a  b"
SrcPrintA2B ==
    <<"p", "r", "i", "n", "t", " ", "\"", "a", " ", " ", "b", "\"">>

\* print "a<tab>b"
SrcPrintATabB ==
    <<"p", "r", "i", "n", "t", " ", "\"", "a", "\t", "b", "\"">>

\* divide 10 0
SrcDivide10By0 ==
    <<"d", "i", "v", "i", "d", "e", " ", "1", "0", " ", "0">>

\* subtract -2147483648 x
SrcSubtractMinX ==
    <<"s", "u", "b", "t", "r", "a", "c", "t", " ", "-", "2", "1", "4", "7",
      "4", "8", "3", "6", "4", "8", " ", "x">>

\* multiply x 2
SrcMultiplyX2 ==
    <<"m", "u", "l", "t", "i", "p", "l", "y", " ", "x", " ", "2">>

\* mod 7 x
SrcMod7X ==
    <<"m", "o", "d", " ", "7", " ", "x">>

\* print "a b
SrcPrintUnterminated ==
    <<"p", "r", "i", "n", "t", " ", "\"", "a", " ", "b">>

\* let add = 5
SrcLetAdd5 ==
    <<"l", "e", "t", " ", "a", "d", "d", " ", "=", " ", "5">>

Statements ==
    {SrcLetX5, SrcLetY, SrcAddX3, SrcPrintDone, SrcPrintAB, SrcPrintA2B,
     SrcPrintATabB, SrcDivide10By0, SrcSubtractMinX, SrcMultiplyX2, SrcMod7X,
     SrcPrintUnterminated, SrcLetAdd5}

\* most statements of a generated source
MaxStmts == 2

RECURSIVE JoinLines(_)
\* the statements one per line
JoinLines(stmts) ==
    IF stmts = <<>> THEN <<>>
    ELSE IF Len(stmts) = 1 THEN stmts[1]
    ELSE stmts[1] \o <<"\n">> \o JoinLines(Tail(stmts))

\* the end-to-end example of the specification
ExampleSource == JoinLines(<<SrcLetX5, SrcAddX3, SrcPrintDone>>)

Sources ==
    {JoinLines(stmts) : stmts \in UNION {[1..n -> Statements] : n \in 0..MaxStmts}}
        \cup {ExampleSource}

NameX == <<"x">>

NameY == <<"y">>

\* the statements of generated programs
Nodes ==
    {NodePrint(<<"h", "i">>)}
        \cup {NodeLet(NameX, v) : v \in {MinInt, MaxInt}}
        \cup {NodeLet(NameY, v) : v \in {-1, 0}}
        \cup {NodeOp(op, p[1], p[2]) :
                op \in Operators,
                p \in {<<ValVariable(NameX), ValVariable(NameY)>>,
                       <<ValNumber(7), ValNumber(0)>>,
                       <<ValNumber(-7), ValNumber(2)>>}}

\* most statements of a generated program
MaxProgLen == 3

Programs == UNION {[1..n -> Nodes] : n \in 0..MaxProgLen}

\* the tokens of generated token sequences
Tokens ==
    {TokPrint, TokAdd, TokSubtract, TokMultiply, TokDivide, TokModulus, TokLet,
     TokIdentifier(NameX), TokNumber(1), TokString(<<"h", "i">>)}

\* most tokens of a generated token sequence
MaxTokens == 4

TokenSeqs == UNION {[1..n -> Tokens] : n \in 0..MaxTokens}

----------------------------------------------------------------------------
(* specifications *)

\* main on a source file
Init ==
    /\ code \in Sources
    /\ words = split_whitespace(code)
    /\ tokens = <<>>
    /\ iter = <<>>
    /\ ast = <<>>
    /\ node_idx = 0
    /\ variables = EmptyMap
    /\ stdout = <<>>
    /\ stderr = <<>>
    /\ overflow_checks \in BOOLEAN
    /\ pc = "lexer"

Next ==
    \/ LexStep
    \/ LexReturn
    \/ ParseStep
    \/ ParseReturn
    \/ ExecPrint
    \/ ExecLet
    \/ ExecAdd
    \/ ExecSubtract
    \/ ExecMultiply
    \/ ExecDivide
    \/ ExecModulus
    \/ ExecReturn

Spec == Init /\ [][Next]_vars

\* parser called on any token sequence
InitParser ==
    /\ code = <<>>
    /\ words = <<>>
    /\ tokens \in TokenSeqs
    /\ iter = tokens
    /\ ast = <<>>
    /\ node_idx = 0
    /\ variables = EmptyMap
    /\ stdout = <<>>
    /\ stderr = <<>>
    /\ overflow_checks \in BOOLEAN
    /\ pc = "parser"

NextParser ==
    \/ ParseStep
    \/ ParseReturn

SpecParser == InitParser /\ [][NextParser]_vars

\* execute called on any program
InitExec ==
    /\ code = <<>>
    /\ words = <<>>
    /\ tokens = <<>>
    /\ iter = <<>>
    /\ ast \in Programs
    /\ node_idx = 0
    /\ variables = EmptyMap
    /\ stdout = <<>>
    /\ stderr = <<>>
    /\ overflow_checks \in BOOLEAN
    /\ pc = "execute"

NextExec ==
    \/ ExecPrint
    \/ ExecLet
    \/ ExecAdd
    \/ ExecSubtract
    \/ ExecMultiply
    \/ ExecDivide
    \/ ExecModulus
    \/ ExecReturn

SpecExec == InitExec /\ [][NextExec]_vars

----------------------------------------------------------------------------
(* what the claims refer to *)

\* line begins with prefix
StartsWith(line, prefix) ==
    Len(line) >= Len(prefix) /\ SubSeq(line, 1, Len(prefix)) = prefix

\* the last of the first k statements that is a Let on name, 0 if there is none
LastLetIdx(k, name) ==
    LET S == {i \in 1..k : ast[i].type = "Let" /\ ast[i].var = name}
    IN  IF S = {} THEN 0 ELSE CHOOSE i \in S : \A j \in S : j <= i

\* the names the program mentions
ProgramNames ==
    {ast[i].var : i \in {j \in 1..Len(ast) : ast[j].type = "Let"}}
        \cup {ast[i].a.name :
                i \in {j \in 1..Len(ast) :
                         ast[j].type \in Operators /\ ast[j].a.type = "Variable"}}
        \cup {ast[i].b.name :
                i \in {j \in 1..Len(ast) :
                         ast[j].type \in Operators /\ ast[j].b.type = "Variable"}}

\* the executor is at an arithmetic statement
AtOperator == pc = "execute" /\ node_idx < Len(ast) /\ CurNode.type \in Operators

\* this step wrote a line to standard output
WroteLine == Len(stdout') = Len(stdout) + 1

LastLine == stdout'[Len(stdout')]

----------------------------------------------------------------------------
(* C1 *)

C1_Step ==
    /\ AtNode("Let") =>
         /\ CurNode.var \in DOMAIN variables'
         /\ variables'[CurNode.var] = CurNode.value
    /\ \A name \in ProgramNames :
         LET i == LastLetIdx(node_idx, name)
         IN  (pc = "execute" /\ i > 0) =>
               /\ resolve_value(ValVariable(name), variables) = ast[i].value
               /\ (AtOperator /\ CurNode.a = ValVariable(name) /\ WroteLine) =>
                     StartsWith(LastLine, FmtI32(ast[i].value) \o <<" ">>)

\* C1: right after the executor runs Let(name, v) the environment maps name
\* to v, and an operand Variable(name) of any later statement resolves to the
\* value of the most recent Let on name that has run.
C1_LetBindsUntilReassigned == [][C1_Step]_vars

\* x was assigned twice with different values and then read as a left operand
C1_Witness ==
    /\ pc = "execute"
    /\ node_idx = 3
    /\ ast[1].type = "Let" /\ ast[2].type = "Let"
    /\ ast[1].var = ast[2].var /\ ast[1].value # ast[2].value
    /\ ast[3].type = "Add" /\ ast[3].a = ValVariable(ast[1].var)
    /\ Len(stdout) = 3
    /\ StartsWith(stdout[3], FmtI32(ast[2].value) \o <<" ">>)

----------------------------------------------------------------------------
(* C2 *)

C2_Step ==
    /\ AtNode("Add") =>
         LET left == resolve_value(CurNode.a, variables)
             right == resolve_value(CurNode.b, variables)
         IN  stdout' = Append(stdout, FmtOp(left, "+", right, wrapping_add(left, right)))
    /\ AtNode("Subtract") =>
         LET left == resolve_value(CurNode.a, variables)
             right == resolve_value(CurNode.b, variables)
         IN  stdout' = Append(stdout, FmtOp(left, "-", right, wrapping_sub(left, right)))
    /\ AtNode("Multiply") =>
         LET left == resolve_value(CurNode.a, variables)
             right == resolve_value(CurNode.b, variables)
         IN  stdout' = Append(stdout, FmtOp(left, "*", right, wrapping_mul(left, right)))

\* C2: every Add, Subtract and Multiply statement, whatever its i32 operands
\* (also when the exact result leaves the i32 range), writes exactly one line
\* "a <op> b = r" with r the result wrapped to 32-bit two's complement.
C2_ArithmeticWraps == [][C2_Step]_vars

----------------------------------------------------------------------------
(* C3 *)

C3_Step ==
    /\ (AtNode("Divide") /\ resolve_value(CurNode.b, variables) = 0) =>
         /\ stdout' = stdout
         /\ stderr' = Append(stderr, ErrDivisionByZero)
         /\ node_idx' = node_idx + 1
         /\ pc' = "execute"
    /\ (AtNode("Modulus") /\ resolve_value(CurNode.b, variables) = 0) =>
         /\ stdout' = stdout
         /\ stderr' = Append(stderr, ErrModulusByZero)
         /\ node_idx' = node_idx + 1
         /\ pc' = "execute"

\* C3: a Divide or Modulus statement whose right operand resolves to 0 writes
\* nothing to standard output, writes exactly one diagnostic (Division by zero,
\* Modulus by zero) to standard error, and the executor goes on to the
\* statement after it.
C3_ZeroDivisorReported == [][C3_Step]_vars

\* a division by a variable holding 0 was reported and the statement after it
\* was executed
C3_Witness ==
    /\ pc = "execute"
    /\ node_idx = 3
    /\ ast[1] = NodeLet(NameY, 0)
    /\ ast[2].type = "Divide" /\ ast[2].b = ValVariable(NameY)
    /\ ast[3].type = "Print"
    /\ stderr = <<ErrDivisionByZero>>
    /\ stdout = <<FmtLet(NameY, 0), ast[3].text>>

----------------------------------------------------------------------------
(* C4 *)

\* the arithmetic of the statement leaves the i32 range
ArithmeticOverflows(type, left, right) ==
    \/ type = "Add" /\ add_overflows(left, right)
    \/ type = "Subtract" /\ sub_overflows(left, right)
    \/ type = "Multiply" /\ mul_overflows(left, right)
    \/ type \in {"Divide", "Modulus"} /\ div_overflows(left, right)

C4_Step ==
    \A name \in ProgramNames :
        (pc = "execute" /\ LastLetIdx(node_idx, name) = 0) =>
          /\ resolve_value(ValVariable(name), variables) = 0
          /\ (AtOperator /\ CurNode.a = ValVariable(name)) =>
               /\ WroteLine => StartsWith(LastLine, <<"0", " ">>)
               /\ pc' = "panicked" =>
                    ArithmeticOverflows(CurNode.type, 0,
                                        resolve_value(CurNode.b, variables))
          /\ (AtOperator /\ CurNode.b = ValVariable(name)) =>
               /\ CurNode.type \in {"Divide", "Modulus"} =>
                    (stdout' = stdout /\ pc' = "execute")
               /\ pc' = "panicked" =>
                    ArithmeticOverflows(CurNode.type,
                                        resolve_value(CurNode.a, variables), 0)

\* C4: a variable no Let has assigned yet resolves to 0 in every executor
\* state, also when a Let on it comes later in the program; the lookup itself
\* never aborts the run.
C4_UndefinedResolvesToZero == [][C4_Step]_vars

\* x was read as 0 by the first statement although the second assigns it
C4_Witness ==
    /\ pc = "execute"
    /\ node_idx = 1
    /\ Len(ast) >= 2
    /\ ast[1].type = "Add" /\ ast[1].a = ValVariable(NameX)
    /\ ast[2].type = "Let" /\ ast[2].var = NameX /\ ast[2].value # 0
    /\ Len(stdout) = 1
    /\ StartsWith(stdout[1], <<"0", " ">>)

----------------------------------------------------------------------------
(* source statements, for the claims about whole sources *)

RECURSIVE LinesFrom(_, _, _)
LinesFrom(s, cur, acc) ==
    IF s = <<>> THEN (IF cur = <<>> THEN acc ELSE Append(acc, cur))
    ELSE IF Head(s) = "\n" THEN LinesFrom(Tail(s), <<>>, Append(acc, cur))
    ELSE LinesFrom(Tail(s), Append(cur, Head(s)), acc)

\* the lines of a source, one statement each
Lines(s) == LinesFrom(s, <<>>, <<>>)

RemoveAt(seq, k) == SubSeq(seq, 1, k - 1) \o SubSeq(seq, k + 1, Len(seq))

OperatorKeywords == {KwAdd, KwSubtract, KwMultiply, KwDivide, KwMod}

\* an integer literal or a variable name
IsOperandWord(w) == parse_i32(w).ok \/ (w # <<>> /\ all_alphabetic(w))

\* the line is `let <name> = <int>`, `<op> <operand> <operand>` or `print "<text>"`
WellFormedStmt(line) ==
    LET w == split_whitespace(line)
    IN  \/ /\ Len(w) = 4
           /\ w[1] = KwLet
           /\ w[2] # <<>> /\ all_alphabetic(w[2])
           /\ w[3] = <<"=">>
           /\ parse_i32(w[4]).ok
        \/ /\ Len(w) = 3
           /\ w[1] \in OperatorKeywords
           /\ IsOperandWord(w[2])
           /\ IsOperandWord(w[3])
        \/ /\ Len(w) >= 2
           /\ w[1] = KwPrint
           /\ Len(w[2]) >= 2 \/ Len(w) > 2
           /\ starts_with_quote(w[2])
           /\ ends_with_quote(w[Len(w)])

\* the line is `let <name>` and nothing more
MalformedLet(line) ==
    LET w == split_whitespace(line)
    IN  Len(w) = 2 /\ w[1] = KwLet /\ all_alphabetic(w[2])

RECURSIVE JoinWords(_)
JoinWords(w) ==
    IF Len(w) = 1 THEN w[1] ELSE w[1] \o <<" ">> \o JoinWords(Tail(w))

ExpectedOperand(w) ==
    IF parse_i32(w).ok THEN ValNumber(parse_i32(w).val) ELSE ValVariable(w)

ExpectedOperator(w) ==
    IF w = KwAdd THEN "Add"
    ELSE IF w = KwSubtract THEN "Subtract"
    ELSE IF w = KwMultiply THEN "Multiply"
    ELSE IF w = KwDivide THEN "Divide"
    ELSE "Modulus"

\* the node a well-formed statement stands for (a text's words joined by one
\* space, as section 4.1 of the specification has it)
ExpectedNode(line) ==
    LET w == split_whitespace(line)
    IN  IF w[1] = KwLet THEN NodeLet(w[2], parse_i32(w[4]).val)
        ELSE IF w[1] = KwPrint THEN NodePrint(trim_matches(JoinWords(Tail(w))))
        ELSE NodeOp(ExpectedOperator(w[1]), ExpectedOperand(w[2]), ExpectedOperand(w[3]))

\* the text of the line between its first and its last quote
QuotedText(line) ==
    LET Q == {i \in 1..Len(line) : line[i] = Quote}
        first == CHOOSE i \in Q : \A j \in Q : i <= j
        last == CHOOSE i \in Q : \A j \in Q : j <= i
    IN  SubSeq(line, first + 1, last - 1)

\* the line is a print statement whose literal has several words
MultiWordPrint(line) ==
    LET w == split_whitespace(line)
    IN  /\ Len(w) >= 3
        /\ w[1] = KwPrint
        /\ starts_with_quote(w[2])
        /\ ends_with_quote(w[Len(w)])
        /\ \A i \in 2..(Len(w) - 1) : ~ends_with_quote(w[i])

\* parser has returned and execute has not started its loop
Parsed == pc = "execute" /\ node_idx = 0

----------------------------------------------------------------------------
(* C5 *)

\* C5: when a malformed `let <name>` is followed by valid statements only, a
\* diagnostic is written, the program has no Let node for it, and the program
\* is the one the source without the malformed statement yields (so the
\* statements after it are executed as if it were absent).
C5_MalformedLetDropped ==
    Parsed =>
      \A k \in 1..Len(Lines(code)) :
        LET lines == Lines(code)
        IN  ( /\ MalformedLet(lines[k])
              /\ k < Len(lines)
              /\ \A j \in (k + 1)..Len(lines) : WellFormedStmt(lines[j]) ) =>
              /\ stderr # <<>>
              /\ \A i \in 1..Len(ast) :
                    ~(ast[i].type = "Let"
                        /\ ast[i].var = split_whitespace(lines[k])[2])
              /\ ast = parser(lexer(JoinLines(RemoveAt(lines, k))).tokens).ast

----------------------------------------------------------------------------
(* C6 *)

\* C6: the String token of a print statement whose literal has several words
\* carries the source text between the quotes character for character,
\* whatever whitespace separates the words.
C6_StringKeepsSourceText ==
    pc # "lexer" =>
      \A k \in 1..Len(Lines(code)) :
        LET line == Lines(code)[k]
        IN  MultiWordPrint(line) =>
              \E i \in 1..Len(tokens) : tokens[i] = TokString(QuotedText(line))

----------------------------------------------------------------------------
(* C7 *)

\* C7: the executor never aborts: it runs every statement in program order and
\* returns after exactly Len(program) steps.
C7_ExecutorRunsToTheEnd ==
    /\ pc # "panicked"
    /\ pc = "done" => node_idx = Len(ast)

----------------------------------------------------------------------------
(* C8 *)

\* C8: a source of well-formed statements yields exactly one node per
\* statement, in source order, each with its statement's own operands or text;
\* the example source prints its three lines.
C8_OneNodePerStatement ==
    /\ Parsed =>
         LET lines == Lines(code)
         IN  (\A k \in 1..Len(lines) : WellFormedStmt(lines[k])) =>
               ast = [k \in 1..Len(lines) |-> ExpectedNode(lines[k])]
    /\ (pc = "done" /\ code = ExampleSource) =>
         stdout = <<FmtLet(NameX, 5), FmtOp(5, "+", 3, 8), <<"d", "o", "n", "e">>>>

----------------------------------------------------------------------------
(* C9 *)

C9_Step ==
    /\ (pc = "execute" /\ node_idx = 0) => variables = EmptyMap
    /\ (pc = "execute" /\ ~AtNode("Let")) => variables' = variables
    /\ AtNode("Let") =>
         /\ DOMAIN variables' \ {CurNode.var} = DOMAIN variables \ {CurNode.var}
         /\ \A name \in DOMAIN variables \ {CurNode.var} :
               variables'[name] = variables[name]

\* C9: the environment is empty when execution starts; Print and the five
\* arithmetic statements (a zero divisor and an undefined operand included)
\* leave it unchanged, and Let(name, v) changes the entry of name only.
C9_OnlyLetChangesEnvironment == [][C9_Step]_vars

\* after a Let on y, a division read the undefined x as 0 and the
\* environment still holds y alone
C9_Witness ==
    /\ pc = "execute"
    /\ node_idx = 2
    /\ ast[1] = NodeLet(NameY, -1)
    /\ ast[2].type = "Divide"
    /\ ast[2].a = ValVariable(NameX)
    /\ stdout = <<FmtLet(NameY, -1), FmtOp(0, "/", -1, 0)>>
    /\ DOMAIN variables = {NameY}
    /\ variables[NameY] = -1

----------------------------------------------------------------------------
(* C10 *)

\* the statement at the head of the iterator lacks tokens
Dangling(it) ==
    \/ Head(it).type = "Print" /\ Len(it) < 2
    \/ Head(it).type \in {"Let"} \cup Operators /\ Len(it) < 3

DanglingDiagnostic(tok) ==
    IF tok.type = "Print" THEN ErrExpectedString
    ELSE IF tok.type = "Let" THEN ErrExpectedLet
    ELSE ErrExpectedOperand

C10_Step ==
    (pc = "parser" /\ iter # <<>>) =>
      /\ pc' = "parser"
      /\ Len(iter') < Len(iter)
      /\ Dangling(iter) =>
           /\ ast' = ast
           /\ stderr' = Append(stderr, DanglingDiagnostic(Head(iter)))
           /\ iter' = <<>>

\* C10: on every token sequence the parser goes on without aborting and each
\* iteration consumes at least one token (so it terminates); a Let, Print or
\* operator token with fewer following tokens than its statement needs gets
\* one diagnostic and no node.
C10_ParserTotal == [][C10_Step]_vars

\* a statement was parsed, then a Let with one following token was reported
C10_Witness ==
    /\ pc = "parser"
    /\ iter = <<>>
    /\ Len(tokens) = 4
    /\ tokens[3] = TokLet
    /\ tokens[4].type = "Identifier"
    /\ Len(ast) = 1
    /\ stderr = <<ErrExpectedLet>>

----------------------------------------------------------------------------
(* C11 *)

\* q and r are the quotient truncated toward zero and its remainder
IsTruncatedDivision(a, b, q, r) ==
    /\ q * b + r = a
    /\ r = 0 \/ ((r < 0) = (a < 0))
    /\ b # MinInt => Magnitude(r) < Magnitude(b)

C11_Step ==
    /\ (AtNode("Divide") /\ resolve_value(CurNode.b, variables) # 0) =>
         LET a == resolve_value(CurNode.a, variables)
             b == resolve_value(CurNode.b, variables)
         IN  /\ WroteLine
             /\ stderr' = stderr
             /\ ~div_overflows(a, b) =>
                  \E line \in {LastLine} :
                    LET q == truncating_div(a, b)
                    IN  /\ line = FmtOp(a, "/", b, q)
                        /\ IsTruncatedDivision(a, b, q, a - q * b)
    /\ (AtNode("Modulus") /\ resolve_value(CurNode.b, variables) # 0) =>
         LET a == resolve_value(CurNode.a, variables)
             b == resolve_value(CurNode.b, variables)
         IN  /\ WroteLine
             /\ stderr' = stderr
             /\ ~div_overflows(a, b) =>
                  \E line \in {LastLine} :
                    LET r == truncating_rem(a, b)
                    IN  /\ line = FmtOp(a, "%", b, r)
                        /\ \E q \in {truncating_div(a, b)} :
                              IsTruncatedDivision(a, b, q, r)

\* C11: a Divide or Modulus statement whose right operand resolves to b # 0
\* (a = -2^31 with b = -1 included) writes exactly one result line, with the
\* quotient truncated toward zero, resp. the remainder r with q*b + r = a and
\* r zero or of the sign of a.
C11_DivisionWritesOneLine == [][C11_Step]_vars

----------------------------------------------------------------------------
(* C12 *)

\* the tokens a statement keyword takes after itself
FollowingTokens(tok) ==
    IF tok.type = "Print" THEN 1
    ELSE IF tok.type \in {"Let"} \cup Operators THEN 2
    ELSE 0

\* the tokens one iteration takes from it: the keyword and those after it, or
\* all that is left
Consumed(it) ==
    IF 1 + FollowingTokens(Head(it)) <= Len(it)
    THEN 1 + FollowingTokens(Head(it)) ELSE Len(it)

C12_Step ==
    (pc = "parser" /\ iter # <<>>) =>
      /\ iter' = SubSeq(iter, Consumed(iter) + 1, Len(iter))
      /\ Len(ast') \in {Len(ast), Len(ast) + 1}
      /\ iter' = SubSeq(tokens, Len(tokens) - Len(iter') + 1, Len(tokens))

\* C12: the parser's cursor only moves forward and takes a fixed number of
\* tokens per keyword, accepted or not: a Print token and the 1 token after
\* it, a Let or operator token and the 2 tokens after it (fewer only at the
\* end of the input); what a rejected statement took is not looked at again
\* and parsing resumes at the first token after it.
C12_CursorMovesForward == [][C12_Step]_vars

\* a rejected print took the Let token after it: the identifier and the number
\* were then skipped as stray tokens and no Let node was made
C12_Witness ==
    /\ pc = "parser"
    /\ iter = <<>>
    /\ Len(tokens) = 4
    /\ tokens[1] = TokPrint
    /\ tokens[2] = TokLet
    /\ tokens[3].type = "Identifier"
    /\ tokens[4].type = "Number"
    /\ ast = <<>>
    /\ stderr = <<ErrExpectedString>>

----------------------------------------------------------------------------
(* C13 *)

\* the lexer is at a word that opens a quoted string
AtQuotedWord == pc = "lexer" /\ words # <<>> /\ starts_with_quote(Head(words))

\* the words left, the one at the cursor included, that end in a quote
ClosingWords == {i \in 1..Len(words) : ends_with_quote(words[i])}

C13_Step ==
    (AtQuotedWord /\ ClosingWords # {}) =>
      LET n == CHOOSE i \in ClosingWords : \A j \in ClosingWords : i <= j
      IN  /\ words' = SubSeq(words, n + 1, Len(words))
          /\ tokens' = Append(tokens,
                              TokString(trim_matches(JoinWords(SubSeq(words, 1, n)))))

\* C13: a quoted string takes the words up to the first word that ends in a
\* quote, the opening word included, and no word beyond it: a one-word literal
\* is a String token of its own and the words after it are lexed by themselves.
C13_StringStopsAtClosingQuote == [][C13_Step]_vars

----------------------------------------------------------------------------
(* C14 *)

\* the word at the cursor opens a string and no word after it ends in a quote
AtUnterminatedString ==
    AtQuotedWord /\ \A i \in 2..Len(words) : ~ends_with_quote(words[i])

C14_Step ==
    AtUnterminatedString =>
      /\ tokens' = Append(tokens, TokString(trim_matches(JoinWords(words))))
      /\ words' = <<>>
      /\ stderr' = stderr
      /\ pc' = "lexer"

\* C14: when no word after an opening quote ends in a quote, the lexer makes
\* one String token of the opening word and all the words left, joined by one
\* space (the outer quotes stripped as for every String), makes no token for
\* those words, writes no diagnostic and has no word left to lex.
C14_UnterminatedStringTakesTheRest == [][C14_Step]_vars

\* the unterminated literal of a print took the add statement after it
C14_Witness ==
    /\ pc = "parser"
    /\ code = JoinLines(<<SrcPrintUnterminated, SrcAddX3>>)
    /\ tokens = <<TokPrint,
                  TokString(<<"a", " ", "b", " ", "a", "d", "d", " ", "x", " ", "3">>)>>
    /\ stderr = <<>>

----------------------------------------------------------------------------
(* C15 *)

Keywords == {KwPrint, KwAdd, KwSubtract, KwMultiply, KwDivide, KwMod, KwLet}

\* C15: every Identifier token carries a name of alphabetic characters only
\* that is not a keyword, the target of a let included.
C15_IdentifiersAreNames ==
    \A i \in 1..Len(tokens) :
        tokens[i].type = "Identifier" =>
          /\ tokens[i].name # <<>>
          /\ all_alphabetic(tokens[i].name)
          /\ tokens[i].name \notin Keywords

----------------------------------------------------------------------------
(* C16 *)

\* the parser is at a token that starts no statement
AtStrayToken ==
    /\ pc = "parser"
    /\ iter # <<>>
    /\ Head(iter).type \in {"Identifier", "Number", "String"}

C16_Step ==
    AtStrayToken =>
      /\ iter' = Tail(iter)
      /\ ast' = ast
      /\ stderr' = stderr
      /\ LET without == RemoveAt(tokens, Len(tokens) - Len(iter) + 1)
         IN  /\ parser(without).ast = parser(tokens).ast
             /\ parser(without).stderr = parser(tokens).stderr

\* C16: an Identifier, Number or String token met where a statement starts
\* yields no node and no diagnostic and takes only itself, so the token
\* sequence yields the nodes it yields without that token.
C16_StrayTokenIgnored == [][C16_Step]_vars

\* a stray number before a print statement: the print node alone, no diagnostic
C16_Witness ==
    /\ pc = "parser"
    /\ iter = <<>>
    /\ Len(tokens) = 3
    /\ tokens[1].type = "Number"
    /\ tokens[2] = TokPrint
    /\ tokens[3].type = "String"
    /\ ast = <<NodePrint(tokens[3].text)>>
    /\ stderr = <<>>

====
